---- MODULE Spec2Model ----
(***************************************************************************)
(* Model of src/app.py: the POST /process_image handler (upload check,     *)
(* image decoding, the segmentation loop over four questions, the ad       *)
(* selection and the response) and the answer normaliser extract_answer.   *)
(*                                                                         *)
(* Python strings that the code inspects character by character (model     *)
(* answers, labels, catalog keys) are sequences of one-character strings.  *)
(* Strings the code only passes around (ad titles, prices, error texts of  *)
(* the upload path) are TLA+ strings.  Ratings are floats with one decimal *)
(* in the source and are kept in tenths (4.8 is 48).                       *)
(***************************************************************************)
EXTENDS Integers, Sequences, FiniteSets, TLC

VARIABLES
    pc,            \* position of the request handler process_image
    request,       \* the upload: is the "image" field present, and its stream
    image,         \* local `image` of process_image: "none" until decoded
    idx,           \* position of the loop over questions.items()
    segmentation,  \* local dict `segmentation`: category -> label
    outcome,       \* what generate() did for each category in this request
    calls,         \* number of generate() invocations per category in this request
    selected_ads,  \* local dict `selected_ads`: category -> Ad
    response,      \* the (body, status) pair the handler returned
    catalogs,      \* module globals ads_age, ads_gender, ads_mood, ads_style
    raw,           \* normaliser run: the raw model text
    answer,        \* normaliser run: extract_answer(raw)
    answer2,       \* normaliser run: extract_answer(extract_answer(raw))
    npc            \* normaliser run: position

vars == <<pc, request, image, idx, segmentation, outcome, calls, selected_ads,
          response, catalogs, raw, answer, answer2, npc>>

handlerVars == <<pc, request, image, idx, segmentation, outcome, calls,
                 selected_ads, response, catalogs>>

normVars == <<raw, answer, answer2, npc>>

Range(s) == {s[i] : i \in DOMAIN s}

----------------------------------------------------------------------------
(* Python str operations used by extract_answer, on character sequences.   *)

ascii_lowercase ==
    <<"a", "b", "c", "d", "e", "f", "g", "h", "i", "j", "k", "l", "m",
      "n", "o", "p", "q", "r", "s", "t", "u", "v", "w", "x", "y", "z">>

ascii_uppercase ==
    <<"A", "B", "C", "D", "E", "F", "G", "H", "I", "J", "K", "L", "M",
      "N", "O", "P", "Q", "R", "S", "T", "U", "V", "W", "X", "Y", "Z">>

IsCased(ch) == ch \in Range(ascii_lowercase) \cup Range(ascii_uppercase)

LetterIndex(ch) ==
    CHOOSE i \in 1..Len(ascii_lowercase) :
        ascii_lowercase[i] = ch \/ ascii_uppercase[i] = ch

upper(ch) == IF IsCased(ch) THEN ascii_uppercase[LetterIndex(ch)] ELSE ch

lower(ch) == IF IsCased(ch) THEN ascii_lowercase[LetterIndex(ch)] ELSE ch

\* str.replace(old, new) for a non-empty old: the non-overlapping
\* occurrences of old, found left to right, are replaced by new.
RECURSIVE replace(_, _, _)
replace(s, old, new) ==
    IF Len(s) < Len(old) THEN s
    ELSE IF SubSeq(s, 1, Len(old)) = old
         THEN new \o replace(SubSeq(s, Len(old) + 1, Len(s)), old, new)
         ELSE <<Head(s)>> \o replace(Tail(s), old, new)

RECURSIVE lstrip(_, _)
lstrip(s, chars) ==
    IF s # <<>> /\ Head(s) \in chars THEN lstrip(Tail(s), chars) ELSE s

RECURSIVE rstrip(_, _)
rstrip(s, chars) ==
    IF s # <<>> /\ s[Len(s)] \in chars
    THEN rstrip(SubSeq(s, 1, Len(s) - 1), chars)
    ELSE s

\* str.strip(chars): drops leading and trailing characters that are in chars.
strip(s, chars) == rstrip(lstrip(s, chars), chars)

\* str.title(): a cased character is upper-cased when the character before
\* it is not cased (or there is none), lower-cased otherwise.
title(s) ==
    [i \in 1..Len(s) |->
        IF i > 1 /\ IsCased(s[i - 1]) THEN lower(s[i]) ELSE upper(s[i])]

end_of_utterance ==
    <<"<", "e", "n", "d", "_", "o", "f", "_",
      "u", "t", "t", "e", "r", "a", "n", "c", "e", ">">>

\* The argument of response.strip(". ")
StripChars == {".", " "}

\* Variant: trims before it removes the marker.
extract_answer_strip_first(text) ==
    title(replace(strip(text, StripChars), end_of_utterance, <<>>))

extract_answer(text) ==
    title(strip(replace(text, end_of_utterance, <<>>), StripChars))

----------------------------------------------------------------------------
(* Ad catalogs.                                                            *)

ads_age ==
    (<<"2", "0", "-", "3", "0">> :>
        <<[title |-> "Ultra Boost X Sneakers", description |-> "Limited edition sneakers with cutting-edge comfort technology", price |-> "$199.99", rating |-> 48],
          [title |-> "Smart Fitness Watch Pro", description |-> "Track your workouts, sleep, and lifestyle with AI-powered insights", price |-> "$299.99", rating |-> 47],
          [title |-> "Urban Streetwear Collection", description |-> "Express yourself with our latest street-inspired fashion drops", price |-> "$149.99", rating |-> 46]>>)
    @@
    (<<"3", "0", "-", "4", "0">> :>
        <<[title |-> "Premium Coffee Maker Plus", description |-> "Barista-quality coffee at home with smart temperature control", price |-> "$399.99", rating |-> 49],
          [title |-> "Professional Series Smartwatch", description |-> "Elegant timepiece with advanced productivity features", price |-> "$449.99", rating |-> 48],
          [title |-> "Home Automation Starter Kit", description |-> "Transform your space with intelligent lighting and security", price |-> "$299.99", rating |-> 47]>>)
    @@
    (<<"4", "0", "-", "5", "0">> :>
        <<[title |-> "Artisanal Wine Selection", description |-> "Curated collection of premium wines from renowned vineyards", price |-> "$599.99", rating |-> 49],
          [title |-> "Luxury Watch Collection", description |-> "Timeless elegance meets modern craftsmanship", price |-> "$1999.99", rating |-> 48],
          [title |-> "Executive Wardrobe Essentials", description |-> "Premium suits and accessories for the distinguished professional", price |-> "$899.99", rating |-> 47]>>)
    @@
    (<<"5", "0", "+">> :>
        <<[title |-> "Wellness Supplement Bundle", description |-> "Comprehensive nutrition support for active aging", price |-> "$129.99", rating |-> 48],
          [title |-> "Comfort-Tech Footwear", description |-> "Advanced ergonomic design for all-day comfort", price |-> "$159.99", rating |-> 47],
          [title |-> "Luxury Travel Experiences", description |-> "Curated adventures with premium accommodations and service", price |-> "$2999.99", rating |-> 49]>>)

ads_gender ==
    (<<"M", "a", "l", "e">> :>
        <<[title |-> "Premium Grooming Kit", description |-> "Complete care collection with precision trimmer and luxurious skincare", price |-> "$199.99", rating |-> 47],
          [title |-> "Modern Menswear Essentials", description |-> "Versatile pieces for the contemporary gentleman", price |-> "$299.99", rating |-> 46],
          [title |-> "Sports Performance Collection", description |-> "Advanced gear for your active lifestyle", price |-> "$249.99", rating |-> 48]>>)
    @@
    (<<"F", "e", "m", "a", "l", "e">> :>
        <<[title |-> "Luxury Beauty Collection", description |-> "Premium skincare and makeup for radiant beauty", price |-> "$299.99", rating |-> 49],
          [title |-> "Designer Handbag Selection", description |-> "Exclusive bags from world-renowned fashion houses", price |-> "$999.99", rating |-> 48],
          [title |-> "Jewelry & Accessories Edit", description |-> "Timeless pieces to elevate every outfit", price |-> "$499.99", rating |-> 47]>>)

ads_mood ==
    (<<"H", "a", "p", "p", "y">> :>
        <<[title |-> "Party Planning Bundle", description |-> "Everything you need for your next celebration", price |-> "$199.99", rating |-> 47],
          [title |-> "Adventure Gear Set", description |-> "Premium outdoor equipment for your next expedition", price |-> "$399.99", rating |-> 48],
          [title |-> "Entertainment Package Plus", description |-> "Stream, game, and enjoy with our premium entertainment system", price |-> "$599.99", rating |-> 46]>>)
    @@
    (<<"N", "e", "u", "t", "r", "a", "l">> :>
        <<[title |-> "Home Essentials Collection", description |-> "Quality basics for everyday living", price |-> "$249.99", rating |-> 45],
          [title |-> "Smart Kitchen Appliances", description |-> "Efficient cooking with innovative technology", price |-> "$699.99", rating |-> 47],
          [title |-> "Casual Dining Experience", description |-> "Discover local restaurants with exclusive offers", price |-> "$99.99", rating |-> 46]>>)
    @@
    (<<"S", "a", "d">> :>
        <<[title |-> "Wellness Retreat Package", description |-> "Rejuvenating spa experiences for mind and body", price |-> "$399.99", rating |-> 49],
          [title |-> "Comfort Food Delivery", description |-> "Gourmet comfort meals delivered to your door", price |-> "$79.99", rating |-> 47],
          [title |-> "Self-Care Collection", description |-> "Premium products for relaxation and wellness", price |-> "$199.99", rating |-> 48]>>)

ads_style ==
    (<<"S", "p", "o", "r", "t", "y">> :>
        <<[title |-> "Pro Athletic Wear", description |-> "High-performance gear for serious athletes", price |-> "$199.99", rating |-> 48],
          [title |-> "Premium Running Shoes", description |-> "Advanced cushioning and support for every run", price |-> "$179.99", rating |-> 47],
          [title |-> "Sports Tech Bundle", description |-> "Track and improve your performance with smart devices", price |-> "$299.99", rating |-> 46]>>)
    @@
    (<<"C", "a", "s", "u", "a", "l">> :>
        <<[title |-> "Essential Comfort Collection", description |-> "Effortless style for everyday wear", price |-> "$149.99", rating |-> 45],
          [title |-> "Lifestyle Sneaker Edit", description |-> "Trendy and comfortable footwear for any occasion", price |-> "$129.99", rating |-> 46],
          [title |-> "Casual Basics Bundle", description |-> "Build your perfect everyday wardrobe", price |-> "$199.99", rating |-> 47]>>)
    @@
    (<<"F", "o", "r", "m", "a", "l">> :>
        <<[title |-> "Luxury Suit Collection", description |-> "Bespoke tailoring with premium fabrics", price |-> "$999.99", rating |-> 49],
          [title |-> "Executive Accessories", description |-> "Fine watches and leather goods for professionals", price |-> "$499.99", rating |-> 48],
          [title |-> "Premium Business Wear", description |-> "Sophisticated attire for the modern executive", price |-> "$799.99", rating |-> 47]>>)
    @@
    (<<"V", "i", "n", "t", "a", "g", "e">> :>
        <<[title |-> "Classic Collection Pieces", description |-> "Timeless fashion with a modern twist", price |-> "$299.99", rating |-> 47],
          [title |-> "Retro-Inspired Accessories", description |-> "Vintage-style pieces for unique charm", price |-> "$199.99", rating |-> 46],
          [title |-> "Heritage Fashion Edit", description |-> "Contemporary takes on classic designs", price |-> "$399.99", rating |-> 48]>>)
Categories == {"age", "gender", "mood", "style"}

\* Variant: the mood and style lookups use each other's catalog.
CatalogsSwapped ==
    [age |-> ads_age, gender |-> ads_gender, mood |-> ads_style, style |-> ads_mood]

\* The catalog each entry of selected_ads is looked up in
Catalogs ==
    [age |-> ads_age, gender |-> ads_gender, mood |-> ads_mood, style |-> ads_style]

\* The fallback Ad(...) literals of the four .get(...) calls
default_ad ==
    [age    |-> [title |-> "Default Age Ad",
                 description |-> "Personalized recommendations for you",
                 price |-> "$0.00", rating |-> 50],
     gender |-> [title |-> "Default Gender Ad",
                 description |-> "Curated selections for you",
                 price |-> "$0.00", rating |-> 50],
     mood   |-> [title |-> "Default Mood Ad",
                 description |-> "Special picks for your mood",
                 price |-> "$0.00", rating |-> 50],
     style  |-> [title |-> "Default Style Ad",
                 description |-> "Trending items for your style",
                 price |-> "$0.00", rating |-> 50]]

\* The answer labels each question of process_image enumerates, in the
\* order of the question text.
questions ==
    [age    |-> << <<"2", "0", "-", "3", "0">>, <<"3", "0", "-", "4", "0">>,
                   <<"4", "0", "-", "5", "0">>, <<"5", "0", "+">> >>,
     gender |-> << <<"M", "a", "l", "e">>, <<"F", "e", "m", "a", "l", "e">> >>,
     mood   |-> << <<"H", "a", "p", "p", "y">>,
                   <<"N", "e", "u", "t", "r", "a", "l">>,
                   <<"S", "a", "d">> >>,
     style  |-> << <<"S", "p", "o", "r", "t", "y">>,
                   <<"C", "a", "s", "u", "a", "l">>,
                   <<"F", "o", "r", "m", "a", "l">>,
                   <<"V", "i", "n", "t", "a", "g", "e">> >>]

\* Iteration order of questions.items() (dict insertion order)
QuestionOrder == <<"age", "gender", "mood", "style">>

----------------------------------------------------------------------------
(* Inputs.                                                                 *)

NA == <<"N", "/", "A">>

\* The prefix of the string ask_mlx_vlm returns from its except branch
ErrorPrefix ==
    <<"E", "r", "r", "o", "r", " ", "p", "r", "o", "c", "e", "s", "s", "i",
      "n", "g", " ", "q", "u", "e", "s", "t", "i", "o", "n", ":", " ">>

\* Texts generate() may return besides the prompted labels
NoiseAnswers ==
    {<<" ", "h", "a", "p", "p", "y", ".", " ">>,
     <<"5", "0", "+">> \o end_of_utterance,
     <<"c", "a", "s", "u", "a", "l", "\n">>,
     <<"m", "a", "y", "b", "e">>}

\* str(e) of the exceptions generate() may raise
ErrorMessages == {<<"t", "i", "m", "e", "d", " ", "o", "u", "t", ".">>}

\* What one generate() call can do: return a text, raise, or return a value
\* that is not a str.
Outcomes(c) ==
    {[kind |-> "text", text |-> t] : t \in Range(questions[c]) \cup NoiseAnswers}
    \cup {[kind |-> "raise", text |-> m] : m \in ErrorMessages}
    \cup {[kind |-> "object", text |-> <<>>]}

NoOutcome == [kind |-> "none", text |-> <<>>]

\* Uploads: no "image" field, an image file, a file that is not an image
Requests ==
    {[has_image |-> FALSE, stream |-> "absent"],
     [has_image |-> TRUE, stream |-> "photo"],
     [has_image |-> TRUE, stream |-> "corrupt"]}

NoRequest == [has_image |-> FALSE, stream |-> "none"]

NoResponse == [status |-> 0, body |-> [pending |-> TRUE]]

EmptyDict == [c \in {} |-> NA]

\* Normaliser inputs: concatenations of at most MaxPieces pieces, and every
\* catalog key.
MaxPieces == 3

Pieces ==
    {<<" ">>, <<".">>, <<"\n">>, <<"\t">>, <<"Y">>,
     <<"h", "a", "p", "p", "y">>, <<"5", "0", "+">>,
     end_of_utterance,
     <<"<", "e", "n", "d", "_", "o", "f", "_">>,
     <<"u", "t", "t", "e", "r", "a", "n", "c", "e", ">">>}

RECURSIVE Concat(_)
Concat(ps) == IF ps = <<>> THEN <<>> ELSE Head(ps) \o Concat(Tail(ps))

CatalogKeys == UNION {DOMAIN Catalogs[c] : c \in Categories}

RawTexts ==
    {Concat(ps) : ps \in UNION {[1..n -> Pieces] : n \in 0..MaxPieces}}
    \cup CatalogKeys

----------------------------------------------------------------------------
(* The request handler.                                                    *)

\* dict.get(key, default)
dict_get(d, key, default) == IF key \in DOMAIN d THEN d[key] ELSE default

\* d[key] = value
dict_set(d, key, value) ==
    [k \in DOMAIN d \cup {key} |-> IF k = key THEN value ELSE d[k]]

\* Image.open(stream).convert("RGB"): succeeds on an image file, raises
\* otherwise.
Image_open(stream) ==
    IF stream = "photo"
    THEN [ok |-> TRUE, error |-> ""]
    ELSE [ok |-> FALSE, error |-> "cannot identify image file"]

\* Variant: a raising generate() call is tried a second time.
ask_mlx_vlm_retry(out) ==
    [invocations |-> IF out.kind = "raise" THEN 2 ELSE 1,
     output |-> IF out.kind = "raise"
                THEN [kind |-> "text", text |-> ErrorPrefix \o out.text]
                ELSE out]

\* ask_mlx_vlm: one generate() call inside try/except Exception; an
\* exception becomes the returned text "Error processing question: <e>".
ask_mlx_vlm(out) ==
    [invocations |-> 1,
     output |-> IF out.kind = "raise"
                THEN [kind |-> "text", text |-> ErrorPrefix \o out.text]
                ELSE out]

\* Variant: the response is stored without being normalised.
SegmentLabelRaw(out) ==
    LET resp == ask_mlx_vlm(out).output
    IN  IF resp.kind = "text" THEN resp.text ELSE NA

\* The try/except of the segmentation loop: the label stored for a category.
\* extract_answer raises on a response that is not a str (no str.replace),
\* and the except branch stores "N/A".
SegmentLabel(out) ==
    LET resp == ask_mlx_vlm(out).output
    IN  IF resp.kind = "text" THEN extract_answer(resp.text) ELSE NA

\* Variant: the style label is looked up in the mood catalog.
CandidatesCopyPaste(cats, seg, c) ==
    dict_get(cats[IF c = "style" THEN "mood" ELSE c],
             dict_get(seg, c, <<>>), <<default_ad[c]>>)

\* Variant: a label without an entry draws from every ad of the category.
CandidatesNoDefault(cats, seg, c) ==
    LET label == dict_get(seg, c, <<>>)
        first == CHOOSE k \in DOMAIN cats[c] : TRUE
    IN  IF label \in DOMAIN cats[c] THEN cats[c][label] ELSE cats[c][first]

\* The candidate list random.choice draws from for category c
Candidates(cats, seg, c) ==
    dict_get(cats[c], dict_get(seg, c, <<>>), <<default_ad[c]>>)

\* return jsonify({"error": "No image uploaded"}), 400
MissingImageResponse ==
    [status |-> 400, body |-> [error |-> "No image uploaded"]]

\* return jsonify({"error": str(e)}), 500
DecodeErrorResponse(msg) == [status |-> 500, body |-> [error |-> msg]]

\* Variant: a request with an "N/A" label is answered with status 500.
HtmlResponseStrict(seg, ads) ==
    [status |-> IF \E c \in DOMAIN seg : seg[c] = NA THEN 500 ELSE 200,
     body |-> [html |-> [labels |-> [c \in Categories |-> dict_get(seg, c, NA)],
                         cards |-> [i \in 1..Len(QuestionOrder) |->
                                        ads[QuestionOrder[i]]]]]]

\* return jsonify({"html": html_output}): the fragment shows the four labels
\* and the four ad cards in the order age, gender, mood, style.
HtmlResponse(seg, ads) ==
    [status |-> 200,
     body |-> [html |-> [labels |-> [c \in Categories |-> dict_get(seg, c, NA)],
                         cards |-> [i \in 1..Len(QuestionOrder) |->
                                        ads[QuestionOrder[i]]]]]]

Init ==
    /\ pc = "idle"
    /\ request = NoRequest
    /\ image = "none"
    /\ idx = 0
    /\ segmentation = EmptyDict
    /\ outcome = [c \in Categories |-> NoOutcome]
    /\ calls = [c \in Categories |-> 0]
    /\ selected_ads = EmptyDict
    /\ response = NoResponse
    /\ catalogs = Catalogs
    /\ raw = <<>>
    /\ answer = <<>>
    /\ answer2 = <<>>
    /\ npc = "off"

\* A POST /process_image arrives; the handler's locals are fresh.
Receive ==
    /\ pc \in {"idle", "done"}
    /\ \E req \in Requests : request' = req
    /\ pc' = "check"
    /\ image' = "none"
    /\ idx' = 0
    /\ segmentation' = EmptyDict
    /\ outcome' = [c \in Categories |-> NoOutcome]
    /\ calls' = [c \in Categories |-> 0]
    /\ selected_ads' = EmptyDict
    /\ response' = NoResponse
    /\ UNCHANGED <<catalogs, normVars>>

\* if "image" not in request.files: return ..., 400
CheckUpload ==
    /\ pc = "check"
    /\ IF ~request.has_image
       THEN /\ response' = MissingImageResponse
            /\ pc' = "done"
       ELSE /\ pc' = "decode"
            /\ UNCHANGED response
    /\ UNCHANGED <<request, image, idx, segmentation, outcome, calls,
                   selected_ads, catalogs, normVars>>

\* Variant: the except branch builds the 500 response but does not return.
DecodeNoReturn ==
    /\ pc = "decode"
    /\ LET opened == Image_open(request.stream)
       IN  IF opened.ok
           THEN /\ image' = "RGB"
                /\ UNCHANGED response
           ELSE /\ response' = DecodeErrorResponse(opened.error)
                /\ UNCHANGED image
    /\ idx' = 1
    /\ pc' = "segment"
    /\ segmentation' = EmptyDict
    /\ UNCHANGED <<request, outcome, calls, selected_ads, catalogs, normVars>>

\* The try/except around Image.open, then segmentation = {}
Decode ==
    /\ pc = "decode"
    /\ LET opened == Image_open(request.stream)
       IN  IF opened.ok
           THEN /\ image' = "RGB"
                /\ idx' = 1
                /\ pc' = "segment"
                /\ UNCHANGED response
           ELSE /\ response' = DecodeErrorResponse(opened.error)
                /\ pc' = "done"
                /\ UNCHANGED <<image, idx>>
    /\ segmentation' = EmptyDict
    /\ UNCHANGED <<request, outcome, calls, selected_ads, catalogs, normVars>>

\* One iteration of `for key, question in questions.items()`
Segment ==
    /\ pc = "segment"
    /\ idx \in 1..Len(QuestionOrder)
    /\ LET key == QuestionOrder[idx]
       IN  \E out \in Outcomes(key) :
              /\ outcome' = [outcome EXCEPT ![key] = out]
              /\ calls' = [calls EXCEPT ![key] = @ + ask_mlx_vlm(out).invocations]
              /\ segmentation' = dict_set(segmentation, key, SegmentLabel(out))
    /\ idx' = idx + 1
    /\ pc' = IF idx = Len(QuestionOrder) THEN "select" ELSE "segment"
    /\ UNCHANGED <<request, image, selected_ads, response, catalogs, normVars>>

\* selected_ads = {...random.choice(...)...}, the rendering and the return
SelectAndRender ==
    /\ pc = "select"
    /\ \E a \in Range(Candidates(catalogs, segmentation, "age")),
          g \in Range(Candidates(catalogs, segmentation, "gender")),
          m \in Range(Candidates(catalogs, segmentation, "mood")),
          s \in Range(Candidates(catalogs, segmentation, "style")) :
          LET ads == [age |-> a, gender |-> g, mood |-> m, style |-> s]
          IN
          /\ selected_ads' = ads
          /\ response' = HtmlResponse(segmentation, ads)
    /\ pc' = "done"
    /\ UNCHANGED <<request, image, idx, segmentation, outcome, calls,
                   catalogs, normVars>>

Next == Receive \/ CheckUpload \/ Decode \/ Segment \/ SelectAndRender

Spec == Init /\ [][Next]_vars

----------------------------------------------------------------------------
(* Runs of the normaliser on its own.                                      *)

InitNorm ==
    /\ pc = "off"
    /\ request = NoRequest
    /\ image = "none"
    /\ idx = 0
    /\ segmentation = EmptyDict
    /\ outcome = [c \in Categories |-> NoOutcome]
    /\ calls = [c \in Categories |-> 0]
    /\ selected_ads = EmptyDict
    /\ response = NoResponse
    /\ catalogs = Catalogs
    /\ raw \in RawTexts
    /\ answer = <<>>
    /\ answer2 = <<>>
    /\ npc = "raw"

Normalize ==
    /\ npc = "raw"
    /\ answer' = extract_answer(raw)
    /\ npc' = "once"
    /\ UNCHANGED <<raw, answer2, handlerVars>>

Renormalize ==
    /\ npc = "once"
    /\ answer2' = extract_answer(answer)
    /\ npc' = "twice"
    /\ UNCHANGED <<raw, answer, handlerVars>>

NextNorm == Normalize \/ Renormalize

SpecNorm == InitNorm /\ [][NextNorm]_vars

----------------------------------------------------------------------------
(* Properties.                                                             *)

Served == pc = "done" /\ response.status = 200

Contains(s, sub) ==
    \E i \in 1..(Len(s) - Len(sub) + 1) : SubSeq(s, i, i + Len(sub) - 1) = sub

\* C1: for every category, when the generate call of that category raised,
\* the Segmentation Result records exactly "N/A" for it.
C1_RaisedCallRecordsNA ==
    \A c \in DOMAIN segmentation :
        outcome[c].kind = "raise" => segmentation[c] = NA

\* C2: whatever subset of the model calls fails, the finished Segmentation
\* Result has exactly the keys age, gender, mood, style, and the label of
\* every category whose call returned a text is the normaliser applied to
\* that category's own text.
C2_FourKeysOwnLabels ==
    /\ (pc \in {"select", "done"} /\ image = "RGB")
            => DOMAIN segmentation = Categories
    /\ \A c \in Categories :
            outcome[c].kind = "text"
                => /\ c \in DOMAIN segmentation
                   /\ segmentation[c] = extract_answer(outcome[c].text)

C2_Witness ==
    /\ pc = "done"
    /\ outcome["age"].kind = "text"
    /\ outcome["gender"].kind = "object"
    /\ outcome["mood"].kind = "raise"
    /\ outcome["style"].text = <<"c", "a", "s", "u", "a", "l", "\n">>
    /\ segmentation["age"] = <<"5", "0", "+">>
    /\ outcome["age"].text # <<"5", "0", "+">>

\* C3: the status of a finished request depends on the upload only: 400 with
\* error "No image uploaded" without an image field, 500 with an error
\* message for an image that does not decode, 200 with an html field
\* otherwise, whatever the four model calls did.
C3_StatusFromUploadOnly ==
    pc = "done" =>
        /\ ~request.has_image
              => /\ response.status = 400
                 /\ response.body = [error |-> "No image uploaded"]
        /\ (request.has_image /\ request.stream # "photo")
              => /\ response.status = 500
                 /\ DOMAIN response.body = {"error"}
                 /\ response.body.error # ""
        /\ (request.has_image /\ request.stream = "photo")
              => /\ response.status = 200
                 /\ DOMAIN response.body = {"html"}

C3_Witness ==
    /\ Served
    /\ outcome["age"].kind = "raise"
    /\ outcome["gender"].kind = "object"
    /\ outcome["mood"].kind = "raise"
    /\ outcome["style"].kind = "object"

\* C4: generate is never invoked while the image is not decoded, and a
\* request answered with 400 or 500 has made no model call and has built no
\* Segmentation Result.
C4_NoModelCallBeforeDecode ==
    /\ (\E c \in Categories : calls[c] > 0) => image = "RGB"
    /\ image = "RGB" => (request.has_image /\ request.stream = "photo")
    /\ response.status \in {400, 500}
          => /\ \A c \in Categories : calls[c] = 0 /\ outcome[c] = NoOutcome
             /\ segmentation = EmptyDict

C4_Witness == pc = "done" /\ response.status = 500 /\ request.stream = "corrupt"

\* C5: in a served request exactly one ad is selected per category, and for
\* every category whose label is a key of the category's catalog the selected
\* ad is one of the entries listed under that key.
C5_SelectedFromLabelEntries ==
    Served =>
        /\ DOMAIN selected_ads = Categories
        /\ Len(response.body.html.cards) = Cardinality(Categories)
        /\ \A c \in Categories :
              segmentation[c] \in DOMAIN Catalogs[c]
                  => \E i \in 1..Len(Catalogs[c][segmentation[c]]) :
                        selected_ads[c] = Catalogs[c][segmentation[c]][i]

C5_Witness ==
    /\ Served
    /\ segmentation["mood"] = <<"H", "a", "p", "p", "y">>
    /\ selected_ads["mood"] = ads_mood[<<"H", "a", "p", "p", "y">>][3]
    /\ segmentation["style"] = <<"V", "i", "n", "t", "a", "g", "e">>

\* C6: when the label of a category is not a key of its catalog ("N/A" and
\* the label left by a raising model call included), the selected ad is the
\* "Default <Category> Ad" with price "$0.00" and rating 5.0, and the request
\* is served with status 200.
C6_DefaultAdForUnknownLabel ==
    (pc = "done" /\ image = "RGB") =>
        /\ response.status = 200
        /\ \A c \in Categories :
              segmentation[c] \notin DOMAIN Catalogs[c]
                  => /\ selected_ads[c].title =
                            [age |-> "Default Age Ad", gender |-> "Default Gender Ad",
                             mood |-> "Default Mood Ad", style |-> "Default Style Ad"][c]
                     /\ selected_ads[c].price = "$0.00"
                     /\ selected_ads[c].rating = 50

C6_Witness ==
    /\ Served
    /\ segmentation["age"] = NA
    /\ outcome["gender"].kind = "raise"
    /\ segmentation["gender"] \notin DOMAIN Catalogs["gender"]
    /\ segmentation["mood"] = <<"M", "a", "y", "b", "e">>
    /\ selected_ads["mood"].title = "Default Mood Ad"

\* C7: the result of extract_answer does not contain <end_of_utterance> and
\* neither starts nor ends with a space, a tab, a newline or a period.
C7_ResultTrimmed ==
    npc \in {"once", "twice"} =>
        /\ ~Contains(answer, end_of_utterance)
        /\ answer # <<>> =>
              /\ Head(answer) \notin {" ", "\t", "\n", "."}
              /\ answer[Len(answer)] \notin {" ", "\t", "\n", "."}

C9_OneCallPerCategory ==
    /\ \A c \in Categories : calls[c] <= 1
    /\ pc = "segment"
          => \A i \in 1..Len(QuestionOrder) :
                calls[QuestionOrder[i]] = IF i < idx THEN 1 ELSE 0
    /\ (pc \in {"select", "done"} /\ image = "RGB")
          => \A c \in Categories : calls[c] = 1

C9_Witness ==
    /\ pc = "done"
    /\ outcome["age"].kind = "raise"
    /\ outcome["gender"].kind = "object"
    /\ \A c \in Categories : calls[c] = 1

\* C10: the catalogs are the ones built at start-up in every state; the keys
\* of each category's catalog are exactly the labels its question
\* enumerates; a prompted label returned verbatim selects one of the ads
\* listed under it, not the default ad.
C10_CatalogKeysArePromptedLabels ==
    /\ catalogs = [age |-> ads_age, gender |-> ads_gender,
                   mood |-> ads_mood, style |-> ads_style]
    /\ \A c \in Categories : DOMAIN catalogs[c] = Range(questions[c])
    /\ Served =>
          \A c \in Categories :
              (outcome[c].kind = "text" /\ outcome[c].text \in Range(questions[c]))
                  => /\ selected_ads[c] \in Range(catalogs[c][outcome[c].text])
                     /\ selected_ads[c] # default_ad[c]

C10_Witness ==
    /\ Served
    /\ \A c \in Categories :
          outcome[c].kind = "text" /\ outcome[c].text = questions[c][Len(questions[c])]

====
